---- MODULE Spec2Model ----
(***************************************************************************)
(* Model of source/common/common.c of xavs2: the log gate and sink         *)
(* (xavs2_log, xavs2_log_default) and the trace recorder (xavs2_trace_init,*)
(* xavs2_trace, xavs2_trace_destroy, h_trace).                             *)
(*                                                                         *)
(* Build modelled: XAVS2_TRACE enabled, _MSC_VER undefined (the ANSI       *)
(* escape-sequence branch of xavs2_log_default).                           *)
(*                                                                         *)
(* Text is a sequence of one-character strings; ESC stands for the byte    *)
(* \033 and "%s" for a string conversion directive of a format.            *)
(***************************************************************************)
EXTENDS Integers, Sequences, FiniteSets, TLC

VARIABLES
    isatty_stdout,      \* environment: stdout is an interactive colour-capable terminal
    XAVS2_LOG_NOPREFIX, \* value of the NOPREFIX level (header not in common.c)
    last,               \* the last operation called and its inputs
    ret,                \* value returned by the last operation
    admitted,           \* xavs2_log: the branch at line 222 was taken
    sink,               \* calls of xavs2_log_default made by the last operation
    out,                \* characters written to stdout by the last operation
    overrun,            \* bytes the last vsprintf wrote past the end of str_in
    crashed,            \* the process was terminated by undefined behaviour
    h_trace,            \* global trace file handle (NULL or a stream id)
    streams,            \* FILE objects ever returned by fopen, by id
    disk,               \* the file system: path -> [exists, data]
    ub,                 \* a closed FILE has been used
    pc,                 \* writer threads: position inside xavs2_trace
    calls,              \* writer threads: number of xavs2_trace calls started
    len                 \* writer threads: local variable len of xavs2_trace

vars == <<isatty_stdout, XAVS2_LOG_NOPREFIX, last, ret, admitted, sink, out,
          overrun, crashed, h_trace, streams, disk, ub, pc, calls, len>>

logVars   == <<admitted, sink, out, overrun>>
traceVars == <<h_trace, streams, disk, ub>>
thrVars   == <<pc, calls, len>>

(***************************************************************************)
(* Bounds of the model.                                                    *)
(***************************************************************************)
MaxLevel     == 20   \* levels -1 .. MaxLevel are passed to xavs2_log
MaxThreshold == 4    \* thresholds -1 .. MaxThreshold are configured
MaxOpens     == 2    \* successful fopen calls
MaxFileLen   == 4    \* characters in one trace file
NumThreads   == 2    \* concurrent writer threads
MaxCalls     == 2    \* xavs2_trace calls per writer thread
MaxCloses    == 2    \* fclose calls applied to one stream

(***************************************************************************)
(* Program constants.                                                      *)
(***************************************************************************)
StrInSize == 2048    \* char str_in[2048]
LowMask   == 15      \* 0x0F
INT_MAX   == 2147483647   \* int is 32 bits wide

\* Severity values: the index of each level into str_color (red, yellow,
\* green, cyan) and the case labels of the switch.
XAVS2_LOG_ERROR   == 0
XAVS2_LOG_WARNING == 1
XAVS2_LOG_INFO    == 2
XAVS2_LOG_DEBUG   == 3

NULL == 0

(***************************************************************************)
(* Text helpers.                                                           *)
(***************************************************************************)
ESC == "ESC"

str_color_clear == <<ESC, "[", "0", "m">>

str_color == <<
    <<ESC, "[", "1", ";", "3", "1", "m">>,    \* red
    <<ESC, "[", "1", ";", "3", "3", "m">>,    \* yellow
    <<ESC, "[", "1", ";", "3", "2", "m">>,    \* green
    <<ESC, "[", "1", ";", "3", "6", "m">>,    \* cyan
    <<ESC, "[", "0", "m">> >>                 \* (default)

prefix_error   == <<"[", "e", "r", "r", "o", "r", "]", ":", " ">>
prefix_warning == <<"[", "w", "a", "r", "n", "i", "n", "g", "]", ":", " ">>
prefix_info    == <<"[", "i", "n", "f", "o", "]", ":", " ">>
prefix_debug   == <<"[", "d", "e", "b", "u", "g", "]", ":", " ">>
prefix_unknown == <<"[", "u", "n", "k", "n", "o", "w", "n", "]", ":", " ">>
null_prefix    == << >>

\* n copies of the character c
Rep(c, n) == [i \in 1..n |-> c]

\* vsprintf / vfprintf conversion: every "%s" directive of the format is
\* replaced by the argument, every other character is copied.
RECURSIVE Format(_, _)
Format(psz_fmt, arg) ==
    IF psz_fmt = << >> THEN << >>
    ELSE (IF Head(psz_fmt) = "%s" THEN arg ELSE <<Head(psz_fmt)>>)
         \o Format(Tail(psz_fmt), arg)

\* bitwise AND of two naturals
RECURSIVE NatAnd(_, _)
NatAnd(a, b) ==
    IF a = 0 \/ b = 0 THEN 0
    ELSE (IF a % 2 = 1 /\ b % 2 = 1 THEN 1 ELSE 0) + 2 * NatAnd(a \div 2, b \div 2)

\* i & m for a two's complement int i and a non-negative mask m
\* (bit 31 of m is clear, so only the low 31 bits of i matter: i + 2^31)
BitAnd(i, m) == NatAnd(IF i < 0 THEN (i + INT_MAX) + 1 ELSE i, m)

(***************************************************************************)
(* xavs2_log_default: the text written to stdout for one message.  junk is *)
(* the address str_color[i_log_level] computes when the level is not an    *)
(* index of the table; it is never printed, both cases that can see it     *)
(* overwrite cur_color.                                                    *)
(***************************************************************************)
Prefix(i_log_level, nopfx) ==
    CASE i_log_level = XAVS2_LOG_ERROR   -> prefix_error
      [] i_log_level = XAVS2_LOG_WARNING -> prefix_warning
      [] i_log_level = XAVS2_LOG_INFO    -> prefix_info
      [] i_log_level = XAVS2_LOG_DEBUG   -> prefix_debug
      [] i_log_level = nopfx             -> null_prefix
      [] OTHER                           -> prefix_unknown

CurColor(i_log_level, nopfx, junk) ==
    LET initial == IF i_log_level \in 0..(Len(str_color) - 1)
                   THEN str_color[i_log_level + 1] ELSE junk
    IN  CASE i_log_level \in {XAVS2_LOG_ERROR, XAVS2_LOG_WARNING,
                              XAVS2_LOG_INFO, XAVS2_LOG_DEBUG} -> initial
          [] i_log_level = nopfx -> str_color[3 + 1]
          [] OTHER               -> str_color[0 + 1]

\* variant: only INFO is written plain, NOPREFIX gets the colour it was assigned
Plain_info_only(i_log_level, nopfx) ==
    i_log_level = XAVS2_LOG_INFO

Plain(i_log_level, nopfx) ==
    ~(i_log_level # XAVS2_LOG_INFO /\ i_log_level # nopfx)

xavs2_log_default(i_log_level, psz_fmt, nopfx, junk) ==
    IF ~Plain(i_log_level, nopfx)
    THEN CurColor(i_log_level, nopfx, junk) \o Prefix(i_log_level, nopfx)
         \o psz_fmt \o str_color_clear
    ELSE Prefix(i_log_level, nopfx) \o psz_fmt

(***************************************************************************)
(* xavs2_log.  A context h is [null, i_log_level]: null for a NULL         *)
(* pointer, otherwise h->param->i_log_level.                               *)
(***************************************************************************)
NoContext == [null |-> TRUE, i_log_level |-> 0]

\* variants of the gate: level compared unmasked, compared with <, and a
\* NULL context suppressing instead of admitting
LogGate_nomask(h, i_log_level) ==
    h.null \/ i_log_level <= h.i_log_level

LogGate_strict(h, i_log_level) ==
    h.null \/ BitAnd(i_log_level, LowMask) < h.i_log_level

LogGate_needs_context(h, i_log_level) ==
    ~h.null /\ BitAnd(i_log_level, LowMask) <= h.i_log_level

LogGate(h, i_log_level) ==
    h.null \/ BitAnd(i_log_level, LowMask) <= h.i_log_level

\* bytes vsprintf stores beyond str_in: the text and its terminating NUL
Overrun(text) ==
    IF Len(text) + 1 > StrInSize THEN Len(text) + 1 - StrInSize ELSE 0

\* What undefined behaviour can do once vsprintf has overrun str_in.
Overflows == {"silent", "abort_on_return", "fault_in_vsprintf"}

\* The effect of one xavs2_log call as a record.
xavs2_log(h, i_log_level, psz_fmt, arg, nopfx, junk, oc) ==
    LET str_in == Format(psz_fmt, arg)
        over   == Overrun(str_in)
        faults == over > 0 /\ oc = "fault_in_vsprintf"
    IN  IF LogGate(h, i_log_level)
        THEN [admitted |-> TRUE,
              overrun  |-> over,
              sink     |-> IF faults THEN << >>
                           ELSE <<[level |-> i_log_level, text |-> str_in]>>,
              out      |-> IF faults THEN << >>
                           ELSE xavs2_log_default(i_log_level, str_in, nopfx, junk),
              crashed  |-> over > 0 /\ oc # "silent"]
        ELSE [admitted |-> FALSE, overrun |-> 0, sink |-> << >>,
              out |-> << >>, crashed |-> FALSE]

(***************************************************************************)
(* The environment: file system and stdio streams.                         *)
(***************************************************************************)
EmptyPath == << >>
Paths     == {EmptyPath, <<"t">>, <<"/", "x">>}
Writable  == {<<"t">>}          \* paths fopen(path, "wt") can create

NoFile == [exists |-> FALSE, data |-> << >>]

\* A FILE object: the file it writes, its unflushed characters, whether it
\* is still open and how often fclose was applied to it.
NewStream(path) ==
    [path |-> path, buf |-> << >>, open |-> TRUE, nclose |-> 0]

\* vfprintf(stream, ...) of an already formatted record: the characters go
\* to the stream buffer as one stdio operation (the stream's own lock).
\* variant: a record put into the stream loses its last character
vfprintf_torn(s, rec) ==
    [s EXCEPT !.buf = @ \o SubSeq(rec, 1, Len(rec) - 1)]

vfprintf(s, rec) == [s EXCEPT !.buf = @ \o rec]

\* fflush(stream): the buffered characters reach the file, the buffer empties.
fflush_disk(s, d) == [d EXCEPT ![s.path].data = @ \o s.buf]
fflush(s)         == [s EXCEPT !.buf = << >>]

\* fclose(stream) of an open stream: flush, then the stream is closed.
fclose(s) == [fflush(s) EXCEPT !.open = FALSE, !.nclose = @ + 1]

(***************************************************************************)
(* Inputs.                                                                 *)
(***************************************************************************)
Levels     == -1..MaxLevel
Thresholds == -1..MaxThreshold
Contexts   == {NoContext} \cup {[null |-> FALSE, i_log_level |-> t] : t \in Thresholds}

NoPrefixValues == {4, 16}

disk_full == <<"d", "i", "s", "k", " ", "f", "u", "l", "l">>
LogFormats == {<<"%s">>, disk_full}
LogArgs    == {<<"x">>, Rep("a", StrInSize - 1), Rep("a", StrInSize)}

\* what the out-of-table address str_color[i_log_level] points at
Junk == {<<"?">>}

cant_write == <<"t", "r", "a", "c", "e", ":", " ", "c", "a", "n", "'", "t", " ",
                "w", "r", "i", "t", "e", " ", "t", "o", " ", "%s", "\n">>

TraceFormats == {<<"%s", "\n">>, << >>}
TraceArgs    == {<<"a">>, <<"b", "c">>}

\* What undefined behaviour can do when a closed FILE is used.
Dangling == {"crash", "error", "silent"}

Threads    == 1..NumThreads
ThreadChar == <<"A", "B", "C", "D">>
CallChar   == <<"1", "2", "3", "4">>
\* the record thread t writes in its k-th call: xavs2_trace("%s\n", "<t><k>")
ThreadRec(t, k) == Format(<<"%s", "\n">>, <<ThreadChar[t], CallChar[k]>>)

\* A call: the operation, its arguments (h, level, psz_fmt and arg of
\* xavs2_log; path of xavs2_trace_init), the formatted text, what the
\* environment answers (fopen_ok, junk, oc) and h_trace as the call found it.
NoCall ==
    [op |-> "none", h |-> NoContext, level |-> 0, psz_fmt |-> << >>, arg |-> << >>,
     text |-> << >>, path |-> EmptyPath, fopen_ok |-> FALSE, junk |-> << >>,
     oc |-> "silent", was |-> NULL, live |-> FALSE]

Live(h) == h # NULL /\ streams[h].open

(***************************************************************************)
(* Initial state: nothing has been called.                                 *)
(***************************************************************************)
Start ==
    /\ ret = 0
    /\ admitted = FALSE
    /\ sink = << >>
    /\ out = << >>
    /\ overrun = 0
    /\ crashed = FALSE
    /\ ub = FALSE
    /\ pc = [t \in Threads |-> "idle"]
    /\ calls = [t \in Threads |-> 0]
    /\ len = [t \in Threads |-> 0]

\* FILE *h_trace = NULL; no stream, no trace file
NoTrace ==
    /\ h_trace = NULL
    /\ streams = << >>
    /\ disk = [p \in Paths |-> NoFile]

\* stdout and the value of XAVS2_LOG_NOPREFIX, which only the log sink reads
LogEnv ==
    /\ isatty_stdout \in BOOLEAN
    /\ XAVS2_LOG_NOPREFIX \in NoPrefixValues

\* the trace recorder runs with stdout redirected
TraceEnv ==
    /\ isatty_stdout = FALSE
    /\ XAVS2_LOG_NOPREFIX = 4

Init == Start /\ TraceEnv /\ NoTrace /\ last = NoCall

\* a caller is about to log a message
LogInputs ==
    {[NoCall EXCEPT !.op = "pending", !.h = h, !.level = level, !.psz_fmt = fmt,
                    !.arg = arg, !.junk = junk, !.oc = oc] :
        h \in Contexts, level \in Levels, fmt \in LogFormats, arg \in LogArgs,
        junk \in Junk, oc \in Overflows}

InitLog == Start /\ LogEnv /\ NoTrace /\ last \in LogInputs

NoLog ==
    /\ admitted' = FALSE
    /\ sink' = << >>
    /\ out' = << >>
    /\ overrun' = 0

(***************************************************************************)
(* A caller logs a message.                                                *)
(***************************************************************************)
LogCall ==
    /\ ~crashed
    /\ last.op = "pending"
    /\ LET r == xavs2_log(last.h, last.level, last.psz_fmt, last.arg,
                          XAVS2_LOG_NOPREFIX, last.junk, last.oc)
       IN  /\ last' = [last EXCEPT !.op = "log",
                                   !.text = Format(last.psz_fmt, last.arg)]
           /\ admitted' = r.admitted
           /\ sink' = r.sink
           /\ out' = r.out
           /\ overrun' = r.overrun
           /\ crashed' = r.crashed
    /\ ret' = 0
    /\ UNCHANGED <<isatty_stdout, XAVS2_LOG_NOPREFIX, traceVars, thrVars>>

(***************************************************************************)
(* xavs2_trace_init(param): path is param->psz_trace_file, ok is whether   *)
(* the operating system lets fopen succeed.                                *)
(***************************************************************************)
FopenSucceeds(path, ok) == ok /\ path \in Writable /\ Len(streams) < MaxOpens

xavs2_trace_init(path, ok) ==
    /\ ~crashed
    /\ last' = [NoCall EXCEPT !.op = "init", !.path = path,
                               !.fopen_ok = FopenSucceeds(path, ok),
                               !.was = h_trace, !.live = Live(h_trace)]
    /\ IF Len(path) > 0
       THEN IF FopenSucceeds(path, ok)
            THEN /\ streams' = Append(streams, NewStream(path))
                 /\ h_trace' = Len(streams) + 1
                 /\ disk' = [disk EXCEPT ![path] = [exists |-> TRUE, data |-> << >>]]
                 /\ ret' = 0
                 /\ NoLog
                 /\ UNCHANGED crashed
            ELSE \E junk \in Junk, oc \in Overflows :
                 LET r == xavs2_log(NoContext, XAVS2_LOG_ERROR, cant_write, path,
                                    XAVS2_LOG_NOPREFIX, junk, oc)
                 IN  /\ h_trace' = NULL
                     /\ admitted' = r.admitted
                     /\ sink' = r.sink
                     /\ out' = r.out
                     /\ overrun' = r.overrun
                     /\ crashed' = r.crashed
                     /\ ret' = -1
                     /\ UNCHANGED <<streams, disk>>
       ELSE /\ ret' = 0
            /\ NoLog
            /\ UNCHANGED <<h_trace, streams, disk, crashed>>
    /\ UNCHANGED <<isatty_stdout, XAVS2_LOG_NOPREFIX, ub, thrVars>>

(***************************************************************************)
(* xavs2_trace(psz_fmt, ...), called by one thread at a time.              *)
(***************************************************************************)
\* The body of xavs2_trace for a handle h that is NULL or an open stream:
\* the streams, the file system and len when it returns.
\* variants: len set although the handle is NULL; fflush left out
trace_body_len_always(h, strs, d, rec) ==
    IF h # NULL
    THEN LET s == vfprintf(strs[h], rec)
         IN  [streams |-> [strs EXCEPT ![h] = fflush(s)],
              disk    |-> fflush_disk(s, d),
              len     |-> Len(rec)]
    ELSE [streams |-> strs, disk |-> d, len |-> Len(rec)]

trace_body_noflush(h, strs, d, rec) ==
    IF h # NULL
    THEN [streams |-> [strs EXCEPT ![h] = vfprintf(strs[h], rec)],
          disk    |-> d,
          len     |-> Len(rec)]
    ELSE [streams |-> strs, disk |-> d, len |-> 0]

trace_body(h, strs, d, rec) ==
    IF h # NULL
    THEN LET s == vfprintf(strs[h], rec)
         IN  [streams |-> [strs EXCEPT ![h] = fflush(s)],
              disk    |-> fflush_disk(s, d),
              len     |-> Len(rec)]
    ELSE [streams |-> strs, disk |-> d, len |-> 0]

xavs2_trace(psz_fmt, arg) ==
    LET rec == Format(psz_fmt, arg)
    IN  /\ ~crashed
        /\ last' = [NoCall EXCEPT !.op = "trace", !.psz_fmt = psz_fmt, !.arg = arg,
                                   !.text = rec, !.was = h_trace,
                                   !.live = Live(h_trace)]
        /\ NoLog
        /\ IF h_trace # NULL /\ ~streams[h_trace].open
           THEN \* vfprintf and fflush on a closed FILE
                \E oc \in Dangling :
                    /\ ub' = TRUE
                    /\ crashed' = (oc = "crash")
                    /\ ret' = (IF oc = "silent" THEN Len(rec) ELSE -1)
                    /\ UNCHANGED <<streams, disk>>
           ELSE LET r == trace_body(h_trace, streams, disk, rec)
                IN  /\ h_trace # NULL =>
                           Len(disk[streams[h_trace].path].data) + Len(rec) <= MaxFileLen
                    /\ streams' = r.streams
                    /\ disk' = r.disk
                    /\ ret' = r.len
                    /\ UNCHANGED <<ub, crashed>>
        /\ UNCHANGED <<isatty_stdout, XAVS2_LOG_NOPREFIX, h_trace, thrVars>>

(***************************************************************************)
(* xavs2_trace_destroy().  h_trace keeps its value after fclose.           *)
(***************************************************************************)
xavs2_trace_destroy ==
    /\ ~crashed
    /\ last' = [NoCall EXCEPT !.op = "destroy", !.was = h_trace,
                               !.live = Live(h_trace)]
    /\ NoLog
    /\ ret' = 0
    /\ IF h_trace # NULL
       THEN IF streams[h_trace].open
            THEN /\ disk' = fflush_disk(streams[h_trace], disk)
                 /\ streams' = [streams EXCEPT ![h_trace] = fclose(@)]
                 /\ UNCHANGED <<ub, crashed>>
            ELSE \* fclose on a closed FILE
                 /\ streams[h_trace].nclose < MaxCloses
                 /\ ub' = TRUE
                 /\ streams' = [streams EXCEPT ![h_trace].nclose = @ + 1]
                 /\ \E oc \in Dangling : crashed' = (oc = "crash")
                 /\ UNCHANGED disk
       ELSE UNCHANGED <<streams, disk, ub, crashed>>
    /\ UNCHANGED <<isatty_stdout, XAVS2_LOG_NOPREFIX, h_trace, thrVars>>

TraceInit    == \E path \in Paths, ok \in BOOLEAN : xavs2_trace_init(path, ok)
TraceWrite   == \E fmt \in TraceFormats, arg \in TraceArgs : xavs2_trace(fmt, arg)
TraceDestroy == xavs2_trace_destroy

(***************************************************************************)
(* Specifications.                                                         *)
(***************************************************************************)
\* the trace recorder driven by one thread
Next == TraceInit \/ TraceWrite \/ TraceDestroy
Spec == Init /\ [][Next]_vars

\* the log gate and sink
NextLog == LogCall
SpecLog == InitLog /\ [][NextLog]_vars

(***************************************************************************)
(* Writer threads.  Each thread calls xavs2_trace up to MaxCalls times;    *)
(* the statements of xavs2_trace of different threads interleave.  No      *)
(* statement of xavs2_trace takes a lock: what keeps one vfprintf whole is *)
(* the lock stdio holds on the stream for the length of one call.          *)
(***************************************************************************)
\* the recorder has been initialised on a writable path before the threads start
InitConc ==
    /\ Start
    /\ TraceEnv
    /\ \E path \in Writable :
          /\ last = [NoCall EXCEPT !.op = "init", !.path = path, !.fopen_ok = TRUE]
          /\ h_trace = 1
          /\ streams = <<NewStream(path)>>
          /\ disk = [p \in Paths |-> IF p = path
                                     THEN [exists |-> TRUE, data |-> << >>]
                                     ELSE NoFile]

\* int len = 0; if (h_trace) ...
T_enter(t) ==
    /\ pc[t] = "idle"
    /\ calls[t] < MaxCalls
    /\ calls' = [calls EXCEPT ![t] = @ + 1]
    /\ len' = [len EXCEPT ![t] = 0]
    /\ pc' = [pc EXCEPT ![t] = IF h_trace # NULL THEN "vfprintf" ELSE "return"]
    /\ UNCHANGED <<isatty_stdout, XAVS2_LOG_NOPREFIX, last, ret, logVars, crashed,
                   traceVars>>

\* len = vfprintf(h_trace, psz_fmt, arg);
T_vfprintf(t) ==
    /\ pc[t] = "vfprintf"
    /\ streams' = [streams EXCEPT ![h_trace] = vfprintf(@, ThreadRec(t, calls[t]))]
    /\ len' = [len EXCEPT ![t] = Len(ThreadRec(t, calls[t]))]
    /\ pc' = [pc EXCEPT ![t] = "fflush"]
    /\ UNCHANGED <<isatty_stdout, XAVS2_LOG_NOPREFIX, last, ret, logVars, crashed,
                   h_trace, disk, ub, calls>>

\* fflush(h_trace);
T_fflush(t) ==
    /\ pc[t] = "fflush"
    /\ disk' = fflush_disk(streams[h_trace], disk)
    /\ streams' = [streams EXCEPT ![h_trace] = fflush(@)]
    /\ pc' = [pc EXCEPT ![t] = "return"]
    /\ UNCHANGED <<isatty_stdout, XAVS2_LOG_NOPREFIX, last, ret, logVars, crashed,
                   h_trace, ub, calls, len>>

\* return len;
T_return(t) ==
    /\ pc[t] = "return"
    /\ ret' = len[t]
    /\ last' = [NoCall EXCEPT !.op = "trace", !.psz_fmt = <<"%s", "\n">>,
                               !.arg = <<ThreadChar[t], CallChar[calls[t]]>>,
                               !.text = ThreadRec(t, calls[t]),
                               !.was = h_trace, !.live = Live(h_trace)]
    /\ pc' = [pc EXCEPT ![t] = "idle"]
    /\ UNCHANGED <<isatty_stdout, XAVS2_LOG_NOPREFIX, logVars, crashed, traceVars,
                   calls, len>>

Enter    == \E t \in Threads : T_enter(t)
Vfprintf == \E t \in Threads : T_vfprintf(t)
Fflush   == \E t \in Threads : T_fflush(t)
Return   == \E t \in Threads : T_return(t)

NextConc == Enter \/ Vfprintf \/ Fflush \/ Return
SpecConc == InitConc /\ [][NextConc]_vars

(***************************************************************************)
(* Properties.                                                             *)
(***************************************************************************)
Logged  == last.op = "log"
Red     == <<ESC, "[", "1", ";", "3", "1", "m">>
Yellow  == <<ESC, "[", "1", ";", "3", "3", "m">>
Cyan    == <<ESC, "[", "1", ";", "3", "6", "m">>
Reset   == <<ESC, "[", "0", "m">>
HasEscape(text) == \E i \in 1..Len(text) : text[i] = ESC

\* the severity of a level: its low 4 bits
Severity(level) == level % 16

\* C1: xavs2_log(context, L, ...) passes the message to the sink if and only
\* if the context is NULL or (L & 0x0F) <= T, T the context's log level; two
\* levels that differ only above the low 4 bits get the same decision.
C1_EmitIffMaskedLevelWithinThreshold ==
    Logged =>
        LET within == last.h.null \/ Severity(last.level) <= last.h.i_log_level
        IN  /\ admitted <=> within
            /\ overrun = 0 =>
                  sink = IF within THEN <<[level |-> last.level, text |-> last.text]>>
                         ELSE << >>
            /\ ~within => out = << >>
            /\ \A l2 \in Levels :
                  Severity(l2) = Severity(last.level) => (LogGate(last.h, l2) <=> admitted)

\* a level with a high bit set passes a threshold below its unmasked value
C1_Witness ==
    /\ Logged /\ ~last.h.null /\ last.level >= 16
    /\ last.level > last.h.i_log_level
    /\ admitted /\ sink # << >>

\* C2 as stated: a message of severity ERROR is emitted whatever the
\* context's threshold, a threshold below ERROR included.
C2_ErrorAlwaysEmitted ==
    (Logged /\ last.level = XAVS2_LOG_ERROR) => admitted

\* C2 amended: a message of severity ERROR is emitted exactly when no context
\* is supplied or the context's threshold is at least ERROR (0); under a
\* threshold below ERROR it is suppressed.
C2_ErrorEmittedUnlessThresholdBelowError ==
    (Logged /\ last.level = XAVS2_LOG_ERROR) =>
        /\ admitted <=> (last.h.null \/ last.h.i_log_level >= 0)
        /\ (overrun = 0 /\ (last.h.null \/ last.h.i_log_level >= 0)) => out # << >>
        /\ ~(last.h.null \/ last.h.i_log_level >= 0) => (sink = << >> /\ out = << >>)

C2_Witness ==
    /\ Logged /\ last.level = XAVS2_LOG_ERROR
    /\ ~last.h.null /\ last.h.i_log_level = XAVS2_LOG_ERROR
    /\ admitted /\ sink # << >>

\* C3: when stdout is not an interactive colour-capable terminal every
\* emitted message is written as prefix plus text without an escape sequence;
\* log(NULL, ERROR, "disk full") writes exactly "[error]: disk full".
C3_PlainTextWhenNotATerminal ==
    (Logged /\ ~isatty_stdout /\ sink # << >>) =>
        /\ ~HasEscape(out)
        /\ (last.h.null /\ last.level = XAVS2_LOG_ERROR /\ last.text = disk_full) =>
              out = prefix_error \o disk_full

\* C4: the message is formatted into a buffer of 2048 bytes and no message,
\* however long, is written past the end of that buffer.
C4_NoWritePastStrIn ==
    Logged => overrun = 0

\* C5: the sink writes the prefix the rendering table gives for the level it
\* is passed; INFO and NOPREFIX messages carry no colour or reset sequence;
\* on a capable terminal every other level is written as colour, prefix,
\* text, reset: red for ERROR and unrecognised levels, yellow for WARNING,
\* cyan for DEBUG.
C5_SinkRendering ==
    (Logged /\ sink # << >>) =>
        LET level == sink[1].level
            text  == sink[1].text
            pfx   == IF level = 0 THEN prefix_error
                     ELSE IF level = 1 THEN prefix_warning
                     ELSE IF level = 2 THEN prefix_info
                     ELSE IF level = 3 THEN prefix_debug
                     ELSE IF level = XAVS2_LOG_NOPREFIX THEN << >>
                     ELSE prefix_unknown
            col   == IF level = 1 THEN Yellow ELSE IF level = 3 THEN Cyan ELSE Red
        IN  /\ level = last.level
            /\ out \in {pfx \o text, col \o pfx \o text \o Reset}
            /\ level \in {XAVS2_LOG_INFO, XAVS2_LOG_NOPREFIX} => out = pfx \o text
            /\ (isatty_stdout /\ level \notin {XAVS2_LOG_INFO, XAVS2_LOG_NOPREFIX}) =>
                  out = col \o pfx \o text \o Reset

\* a NOPREFIX message on a capable terminal: the text alone
C5_Witness ==
    /\ Logged /\ isatty_stdout /\ sink # << >>
    /\ last.level = XAVS2_LOG_NOPREFIX
    /\ last.text = <<"x">> /\ out = <<"x">>

\* C6: while the recorder holds no file handle (before any init, after init
\* with an empty path, after a failed init) xavs2_trace returns 0, writes to
\* no file, creates no file and leaves the recorder as it was, however often
\* it is called.
C6_WriteWithoutHandleIsNoOp ==
    /\ [](last.op = "none" => h_trace = NULL)
    /\ []((last.op = "init" /\ last.path = EmptyPath) =>
              (ret = 0 /\ h_trace = last.was))
    /\ []((last.op = "init" /\ last.path # EmptyPath /\ ~last.fopen_ok) =>
              h_trace = NULL)
    /\ [][(h_trace = NULL /\ last'.op = "trace") =>
              (ret' = 0 /\ h_trace' = NULL /\ streams' = streams /\ disk' = disk)]_vars

\* a second write after a failed init
C6_Witness ==
    /\ last.op = "trace" /\ last.was = NULL /\ last.text # << >>
    /\ ret = 0 /\ h_trace = NULL
    /\ \A p \in Paths : ~disk[p].exists

\* C7: xavs2_trace_init with a non-empty path whose file cannot be opened
\* returns -1, emits exactly one ERROR message through xavs2_log and leaves
\* no handle in the recorder; when the file opens it returns 0 and the
\* recorder holds the open handle of the created, empty file.
C7_InitOutcome ==
    (last.op = "init" /\ last.path # EmptyPath) =>
        IF last.fopen_ok
        THEN /\ ret = 0
             /\ sink = << >> /\ out = << >>
             /\ h_trace = Len(streams) /\ Live(h_trace)
             /\ streams[h_trace].path = last.path
             /\ disk[last.path].exists
        ELSE /\ ret = -1
             /\ Len(sink) = 1 /\ sink[1].level = XAVS2_LOG_ERROR
             /\ sink[1].text = Format(cant_write, last.path)
             /\ SubSeq(out, Len(Red) + 1, Len(Red) + Len(prefix_error)) = prefix_error
             /\ h_trace = NULL
             /\ Len(streams) = 0 => (\A p \in Paths : ~disk[p].exists)

C7_Witness ==
    /\ last.op = "init" /\ last.path = <<"/", "x">> /\ ~last.fopen_ok
    /\ ret = -1 /\ Len(sink) = 1 /\ h_trace = NULL

C9_ClosedOnceNeverUsedAfterClose ==
    /\ ~ub
    /\ \A i \in 1..Len(streams) : streams[i].nclose <= 1

\* C10 as stated: the append and the flush of one xavs2_trace call run under
\* mutual exclusion: no second thread is between its append and its flush
\* while one thread is.
C10_AppendAndFlushMutuallyExclusive ==
    Cardinality({t \in Threads : pc[t] = "fflush"}) <= 1

AllRecs == {ThreadRec(t, k) : t \in Threads, k \in 1..MaxCalls}

\* text is a concatenation of distinct whole records not in used
RECURSIVE Serial(_, _)
Serial(text, used) ==
    \/ text = << >>
    \/ \E r \in AllRecs \ used :
          /\ Len(text) >= Len(r)
          /\ SubSeq(text, 1, Len(r)) = r
          /\ Serial(SubSeq(text, Len(r) + 1, Len(text)), used \cup {r})

\* text contains rec as a contiguous block
Contains(text, rec) ==
    \E i \in 0..(Len(text) - Len(rec)) : SubSeq(text, i + 1, i + Len(rec)) = rec

TraceFile == disk[streams[h_trace].path].data

\* C10 amended: xavs2_trace takes no lock and another thread's append can
\* fall between one call's append and its flush; each record still enters
\* the stream whole, so in every interleaving the file followed by the
\* unflushed characters is a serial order of whole records, and the record
\* of a call is in the file once the call is past its flush.
C10_RecordsWholeInSomeSerialOrder ==
    /\ Serial(TraceFile \o streams[h_trace].buf, {})
    /\ \A t \in Threads : \A k \in 1..calls[t] :
          (k < calls[t] \/ pc[t] \in {"return", "idle"}) =>
              Contains(TraceFile, ThreadRec(t, k))

\* both threads were between append and flush, and the file holds every
\* record with the two threads' records alternating
C10_Witness ==
    /\ \A t \in Threads : pc[t] = "idle" /\ calls[t] = MaxCalls
    /\ Len(TraceFile) = 3 * NumThreads * MaxCalls
    /\ TraceFile[1] = "A" /\ TraceFile[4] = "B" /\ TraceFile[7] = "A"

====
